---- MODULE Spec2Model ----
(***************************************************************************)
(* Row comparators of polars-core (chunked_array/ops/compare_inner.rs):    *)
(* the comparator factories into_total_eq_inner / into_total_ord_inner,    *)
(* the element accessors behind them and the null ordering rule; and the   *)
(* PartialEq / Hash pair of polars-plan's FunctionIR.                      *)
(***************************************************************************)
EXTENDS Integers, Sequences, FiniteSets, TLC

\* ---------------------------------------------------------------- bounds
MaxLen == 3         \* rows of a ChunkedArray<Float64> column
MaxVal == 1         \* ordinary float payloads are 0..MaxVal
MaxCatLen == 2      \* rows of a categorical column
MaxCode == 1        \* category codes are 0..MaxCode
MaxOffset == 1      \* RowIndex offsets are 0..MaxOffset

\* ------------------------------------------------------ payload domains
\* The float payload that has no natural order; ordinary payloads are 0..MaxVal.
NaN == MaxVal + 1

Floats == (0..MaxVal) \cup {NaN}
Codes == 0..MaxCode
\* Category strings, as byte sequences: "a", "b", "ab".
Strs == {<<1>>, <<2>>, <<1, 2>>}

is_nan(x) == x = NaN

\* f64 == f64 (PartialEq): a NaN is equal to nothing.
native_eq_f64(l, r) == ~is_nan(l) /\ ~is_nan(r) /\ l = r

\* TotalEq for floats: NaN is equal to NaN.
tot_eq_f64(l, r) == IF is_nan(l) THEN is_nan(r) ELSE l = r

\* TotalOrd for floats: NaN sorts to one end (the greatest) and equals itself.
tot_cmp_f64(l, r) ==
    IF is_nan(l) THEN (IF is_nan(r) THEN "Equal" ELSE "Greater")
    ELSE IF is_nan(r) THEN "Less"
    ELSE IF l < r THEN "Less"
    ELSE IF l > r THEN "Greater"
    ELSE "Equal"

\* TotalOrd for the integer category codes.
tot_cmp_u32(l, r) ==
    IF l < r THEN "Less" ELSE IF l > r THEN "Greater" ELSE "Equal"

\* TotalOrd for &str: lexicographic order of the bytes.
RECURSIVE tot_cmp_str(_, _)
tot_cmp_str(l, r) ==
    IF l = <<>> THEN (IF r = <<>> THEN "Equal" ELSE "Less")
    ELSE IF r = <<>> THEN "Greater"
    ELSE IF Head(l) < Head(r) THEN "Less"
    ELSE IF Head(l) > Head(r) THEN "Greater"
    ELSE tot_cmp_str(Tail(l), Tail(r))

tot_eq(dtype, l, r) == IF dtype = "f64" THEN tot_eq_f64(l, r) ELSE l = r

tot_cmp(dtype, l, r) ==
    CASE dtype = "f64" -> tot_cmp_f64(l, r)
      [] dtype = "u32" -> tot_cmp_u32(l, r)
      [] dtype = "str" -> tot_cmp_str(l, r)

\* Option<T>
None == [some |-> FALSE]
Some(x) == [some |-> TRUE, val |-> x]

\* TotalEq for Option<T>.
tot_eq_Option(dtype, l, r) ==
    IF l.some /\ r.some THEN tot_eq(dtype, l.val, r.val)
    ELSE ~l.some /\ ~r.some

\* Mutant: the payloads' native equality (==) in place of tot_eq.
tot_eq_NonNull_native(dtype, l, r) ==
    IF dtype = "f64" THEN native_eq_f64(l, r) ELSE l = r

\* TotalEq for NonNull<T>: the payloads' total equality.
tot_eq_NonNull(dtype, l, r) == tot_eq(dtype, l, r)

\* Mutant: the two one-null arms exchanged.
null_order_cmp_Option_mirrored(dtype, l, r, nulls_last) ==
    CASE ~l.some /\ ~r.some -> "Equal"
      [] ~l.some /\ r.some -> IF nulls_last THEN "Less" ELSE "Greater"
      [] l.some /\ ~r.some -> IF nulls_last THEN "Greater" ELSE "Less"
      [] l.some /\ r.some -> tot_cmp(dtype, l.val, r.val)

\* Mutant: nulls_last not read, null always ordered after a present value.
null_order_cmp_Option_fixed(dtype, l, r, nulls_last) ==
    CASE ~l.some /\ ~r.some -> "Equal"
      [] ~l.some /\ r.some -> "Greater"
      [] l.some /\ ~r.some -> "Less"
      [] l.some /\ r.some -> tot_cmp(dtype, l.val, r.val)

\* Mutant: present payloads ordered by partial_cmp, Less when it has no answer.
null_order_cmp_Option_partial(dtype, l, r, nulls_last) ==
    CASE ~l.some /\ ~r.some -> "Equal"
      [] ~l.some /\ r.some -> IF nulls_last THEN "Greater" ELSE "Less"
      [] l.some /\ ~r.some -> IF nulls_last THEN "Less" ELSE "Greater"
      [] l.some /\ r.some ->
            IF dtype = "f64" /\ (is_nan(l.val) \/ is_nan(r.val)) THEN "Less"
            ELSE tot_cmp(dtype, l.val, r.val)

\* NullOrderCmp for Option<T>.
null_order_cmp_Option(dtype, l, r, nulls_last) ==
    CASE ~l.some /\ ~r.some -> "Equal"
      [] ~l.some /\ r.some -> IF nulls_last THEN "Greater" ELSE "Less"
      [] l.some /\ ~r.some -> IF nulls_last THEN "Less" ELSE "Greater"
      [] l.some /\ r.some -> tot_cmp(dtype, l.val, r.val)

\* Mutant: nulls_last read as a descending flag.
null_order_cmp_NonNull_policy(dtype, l, r, nulls_last) ==
    IF nulls_last THEN tot_cmp(dtype, l, r) ELSE tot_cmp(dtype, r, l)

\* NullOrderCmp for NonNull<T>: nulls_last is not read.
null_order_cmp_NonNull(dtype, l, r, nulls_last) == tot_cmp(dtype, l, r)

\* -------------------------------------------------------------- columns
\* A row of an array: the validity bit and the slot of the values buffer.
\* A null row still has a slot, which only value_unchecked would read; no
\* comparator the factories build reads it, and it holds the default payload.
NullRow == [valid |-> FALSE, value |-> 0]
FloatRows == {[valid |-> TRUE, value |-> v] : v \in Floats} \cup {NullRow}
CodeRows == {[valid |-> TRUE, value |-> v] : v \in Codes} \cup {NullRow}

\* The row sequence `rows` cut into blocks after the positions in `cuts`.
RECURSIVE SplitAt(_, _, _)
SplitAt(rows, cuts, from) ==
    LET ends == {c \in cuts : c >= from}
    IN IF ends = {} THEN <<SubSeq(rows, from, Len(rows))>>
       ELSE LET e == CHOOSE c \in ends : \A d \in ends : c <= d
            IN <<SubSeq(rows, from, e)>> \o SplitAt(rows, cuts, e + 1)

Chunkings(rowset, maxlen) ==
    UNION {UNION {{SplitAt(rows, cuts, 1) : cuts \in SUBSET (1..(n - 1))} :
                  rows \in [1..n -> rowset]} : n \in 1..maxlen}

Mappings == {m \in [Codes -> Strs] : \A c, d \in Codes : c # d => m[c] # m[d]}
NoMapping == [c \in Codes |-> <<>>]

ChunkedColumns ==
    {[kind |-> "chunked", dtype |-> "f64", chunks |-> ch, length |-> 0,
      mapping |-> NoMapping, lexical |-> FALSE] : ch \in Chunkings(FloatRows, MaxLen)}
NullColumns ==
    {[kind |-> "null", dtype |-> "null", chunks |-> <<>>, length |-> n,
      mapping |-> NoMapping, lexical |-> FALSE] : n \in 1..MaxLen}
CatColumns ==
    {[kind |-> "cat", dtype |-> "u32", chunks |-> ch, length |-> 0,
      mapping |-> m, lexical |-> lex] :
        ch \in Chunkings(CodeRows, MaxCatLen), m \in Mappings, lex \in BOOLEAN}
Columns == ChunkedColumns \cup NullColumns \cup CatColumns

RECURSIVE Flatten(_)
Flatten(chunks) == IF chunks = <<>> THEN <<>> ELSE Head(chunks) \o Flatten(Tail(chunks))

\* Logical length of a column and its valid row indices (0-based, as in the code).
len(col) == IF col.kind = "null" THEN col.length ELSE Len(Flatten(col.chunks))
Indices(col) == 0..(len(col) - 1)

null_count(arr) == Cardinality({k \in 1..Len(arr) : ~arr[k].valid})

\* ChunkedArray::layout
layout(chunks) ==
    IF Len(chunks) = 1
    THEN (IF null_count(chunks[1]) = 0 THEN "SingleNoNull" ELSE "Single")
    ELSE (IF \A k \in 1..Len(chunks) : null_count(chunks[k]) = 0
          THEN "MultiNoNull" ELSE "Multi")

\* ------------------------------------------------------------ accessors
\* StaticArray::get_unchecked / value_unchecked on one block.
arr_get_unchecked(arr, idx) ==
    IF arr[idx + 1].valid THEN Some(arr[idx + 1].value) ELSE None
arr_value_unchecked(arr, idx) == arr[idx + 1].value

\* ChunkedArray::index_to_chunked_index: walk the blocks, subtracting lengths.
RECURSIVE index_to_chunked_index(_, _, _)
index_to_chunked_index(chunks, k, idx) ==
    IF k = Len(chunks) \/ idx < Len(chunks[k]) THEN <<k, idx>>
    ELSE index_to_chunked_index(chunks, k + 1, idx - Len(chunks[k]))

ca_get_unchecked(chunks, idx) ==
    LET ci == index_to_chunked_index(chunks, 1, idx)
    IN arr_get_unchecked(chunks[ci[1]], ci[2])
ca_value_unchecked(chunks, idx) ==
    LET ci == index_to_chunked_index(chunks, 1, idx)
    IN arr_value_unchecked(chunks[ci[1]], ci[2])

\* GetInner for &ChunkedArray<T>
get_unchecked_CA(col, idx) == ca_get_unchecked(col.chunks, idx)
\* GetInner for &T (one StaticArray block)
get_unchecked_Arr(col, idx) == arr_get_unchecked(col.chunks[1], idx)
\* GetInner for NonNull<&ChunkedArray<T>>
get_unchecked_NonNullCA(col, idx) == ca_value_unchecked(col.chunks, idx)
\* GetInner for NonNull<&T>
get_unchecked_NonNullArr(col, idx) == arr_value_unchecked(col.chunks[1], idx)

\* CategoricalMapping::cat_to_str_unchecked
cat_to_str_unchecked(mapping, cat) == mapping[cat]

\* GetInner for LexicalCategorical
get_unchecked_Lexical(col, idx) ==
    LET cat == ca_get_unchecked(col.chunks, idx)
    IN IF ~cat.some THEN None ELSE Some(cat_to_str_unchecked(col.mapping, cat.val))

\* The accessor a comparator holds, by its concrete type.
get_unchecked(c, col, idx) ==
    CASE c.tag = "CA" -> get_unchecked_CA(col, idx)
      [] c.tag = "Arr" -> get_unchecked_Arr(col, idx)
      [] c.tag = "NonNullCA" -> get_unchecked_NonNullCA(col, idx)
      [] c.tag = "NonNullArr" -> get_unchecked_NonNullArr(col, idx)
      [] c.tag = "Lexical" -> get_unchecked_Lexical(col, idx)

IsNonNull(c) == c.tag \in {"NonNullCA", "NonNullArr"}

\* ---------------------------------------------------------- comparators
\* Mutant: the items compared with their native equality (==).
eq_element_unchecked_native(c, col, idx_a, idx_b) ==
    LET a == get_unchecked(c, col, idx_a)
        b == get_unchecked(c, col, idx_b)
    IN IF IsNonNull(c) THEN tot_eq_NonNull_native(c.dtype, a, b)
       ELSE IF a.some /\ b.some THEN tot_eq_NonNull_native(c.dtype, a.val, b.val)
       ELSE ~a.some /\ ~b.some

\* TotalEqInner for T: GetInner
eq_element_unchecked(c, col, idx_a, idx_b) ==
    IF IsNonNull(c)
    THEN tot_eq_NonNull(c.dtype, get_unchecked(c, col, idx_a), get_unchecked(c, col, idx_b))
    ELSE tot_eq_Option(c.dtype, get_unchecked(c, col, idx_a), get_unchecked(c, col, idx_b))

\* TotalEqInner for &NullChunked
eq_element_unchecked_NullChunked(c, col, idx_a, idx_b) == TRUE

\* TotalOrdInner for T: GetInner
cmp_element_unchecked(c, col, idx_a, idx_b, nulls_last) ==
    LET a == get_unchecked(c, col, idx_a)
        b == get_unchecked(c, col, idx_b)
    IN IF IsNonNull(c)
       THEN null_order_cmp_NonNull(c.dtype, a, b, nulls_last)
       ELSE null_order_cmp_Option(c.dtype, a, b, nulls_last)

\* Mutant: the all-null comparator orders rows by their index.
cmp_element_unchecked_NullChunked_by_index(c, col, idx_a, idx_b, nulls_last) ==
    tot_cmp_u32(idx_a, idx_b)

\* TotalOrdInner for &NullChunked
cmp_element_unchecked_NullChunked(c, col, idx_a, idx_b, nulls_last) == "Equal"

\* Calls through Box<dyn TotalEqInner> / Box<dyn TotalOrdInner>.
dyn_eq(c, col, idx_a, idx_b) ==
    IF c.tag = "NullChunked" THEN eq_element_unchecked_NullChunked(c, col, idx_a, idx_b)
    ELSE eq_element_unchecked(c, col, idx_a, idx_b)
dyn_cmp(c, col, idx_a, idx_b, nulls_last) ==
    IF c.tag = "NullChunked"
    THEN cmp_element_unchecked_NullChunked(c, col, idx_a, idx_b, nulls_last)
    ELSE cmp_element_unchecked(c, col, idx_a, idx_b, nulls_last)

\* ------------------------------------------------------------ factories
Comparator(tag, dtype) == [tag |-> tag, dtype |-> dtype]
NoComparator == [role |-> "none", tag |-> "none", dtype |-> "none"]

\* IntoTotalEqInner for &ChunkedArray<T>
into_total_eq_inner(chunks, dtype) ==
    CASE layout(chunks) = "SingleNoNull" -> Comparator("NonNullArr", dtype)
      [] layout(chunks) = "Single" -> Comparator("Arr", dtype)
      [] layout(chunks) = "MultiNoNull" -> Comparator("NonNullCA", dtype)
      [] layout(chunks) = "Multi" -> Comparator("CA", dtype)

\* Mutant: the Multi arm wraps the column in NonNull, as the MultiNoNull arm does.
into_total_ord_inner_multi_nonnull(chunks, dtype) ==
    CASE layout(chunks) = "SingleNoNull" -> Comparator("NonNullArr", dtype)
      [] layout(chunks) = "Single" -> Comparator("Arr", dtype)
      [] layout(chunks) = "MultiNoNull" -> Comparator("NonNullCA", dtype)
      [] layout(chunks) = "Multi" -> Comparator("NonNullCA", dtype)

\* IntoTotalOrdInner for &ChunkedArray<T>
into_total_ord_inner(chunks, dtype) ==
    CASE layout(chunks) = "SingleNoNull" -> Comparator("NonNullArr", dtype)
      [] layout(chunks) = "Single" -> Comparator("Arr", dtype)
      [] layout(chunks) = "MultiNoNull" -> Comparator("NonNullCA", dtype)
      [] layout(chunks) = "Multi" -> Comparator("CA", dtype)

\* IntoTotalEqInner / IntoTotalOrdInner for &NullChunked
into_total_eq_inner_NullChunked(col) == Comparator("NullChunked", "null")
into_total_ord_inner_NullChunked(col) == Comparator("NullChunked", "null")

\* Mutant: uses_lexical_ordering is not consulted, the codes are always compared.
into_total_ord_inner_Categorical_codes(col) == into_total_ord_inner(col.chunks, "u32")

\* IntoTotalOrdInner for &CategoricalChunked<T>
into_total_ord_inner_Categorical(col) ==
    IF col.lexical THEN Comparator("Lexical", "str")
    ELSE into_total_ord_inner(col.chunks, "u32")

\* ------------------------------------------------------------ FunctionIR
Names == {"a", "b"}
OptOffsets == {<<>>} \cup {<<n>> : n \in 0..MaxOffset}
OptAliases == {<<>>} \cup {<<n>> : n \in Names}
OptCloud == {<<>>, <<"cloud">>}
ColumnLists == {<<"a">>, <<"b">>, <<"a", "b">>}
CachedSchemas == {"unset", "cached"}

\* enum FunctionIR: a value is its variant and the variant's fields.
IR(variant, fields) == [variant |-> variant, f |-> fields]

RowIndexIRs ==
    {IR("RowIndex", [name |-> n, offset |-> o, schema |-> s]) :
        n \in Names, o \in OptOffsets, s \in CachedSchemas}
OpaquePythonIRs == {IR("OpaquePython", [udf |-> u]) : u \in {"udf1", "udf2"}}
FastCountIRs ==
    {IR("FastCount", [sources |-> s, scan_type |-> t, cloud_options |-> c, alias |-> a]) :
        s \in {"paths1", "paths2"}, t \in {"csv", "parquet"}, c \in OptCloud, a \in OptAliases}
UnnestIRs == {IR("Unnest", [columns |-> c]) : c \in ColumnLists}
RechunkIR == IR("Rechunk", [none |-> TRUE])
ExplodeIRs == {IR("Explode", [columns |-> c, schema |-> s]) : c \in ColumnLists, s \in CachedSchemas}
UnpivotIRs == {IR("Unpivot", [args |-> a, schema |-> s]) : a \in {"args1", "args2"}, s \in CachedSchemas}
OpaqueIRs ==
    {IR("Opaque", [function |-> fn, predicate_pd |-> p, fmt_str |-> s]) :
        fn \in {"udf1", "udf2"}, p \in BOOLEAN, s \in {"fmt1", "fmt2"}}

FunctionIRs ==
    RowIndexIRs \cup OpaquePythonIRs \cup FastCountIRs \cup UnnestIRs \cup {RechunkIR}
        \cup ExplodeIRs \cup UnpivotIRs \cup OpaqueIRs

\* impl PartialEq for FunctionIR
FunctionIR_eq(self, other) ==
    CASE self.variant = "Rechunk" /\ other.variant = "Rechunk" -> TRUE
      [] self.variant = "FastCount" /\ other.variant = "FastCount" ->
            self.f.sources = other.f.sources
      [] self.variant = "Explode" /\ other.variant = "Explode" ->
            self.f.columns = other.f.columns
      [] self.variant = "Unpivot" /\ other.variant = "Unpivot" ->
            self.f.args = other.f.args
      [] self.variant = "RowIndex" /\ other.variant = "RowIndex" ->
            self.f.name = other.f.name
      [] OTHER -> FALSE

\* impl Hash for FunctionIR: the sequence of values fed to the hasher.
FunctionIR_hash(self) ==
    <<self.variant>> \o
    CASE self.variant = "OpaquePython" -> <<>>
      [] self.variant = "Opaque" -> <<self.f.fmt_str>>
      [] self.variant = "FastCount" ->
            <<self.f.sources, self.f.scan_type, self.f.cloud_options, self.f.alias>>
      [] self.variant = "Unnest" -> <<self.f.columns>>
      [] self.variant = "Rechunk" -> <<>>
      [] self.variant = "Explode" -> <<self.f.columns>>
      [] self.variant = "Unpivot" -> <<self.f.args>>
      [] self.variant = "RowIndex" -> <<self.f.name, self.f.offset>>

\* ---------------------------------------------------------------- state
VARIABLES
    column,     \* the column the consumer holds (read-only)
    built,      \* the comparator built over it, with its role ("eq" / "ord")
    call,       \* the pairwise call the consumer has made and not yet used, with its result
    lhs,        \* a FunctionIR value
    rhs,        \* another FunctionIR value
    ir          \* what lhs == rhs returned and what hashing each fed the hasher

cmp_vars == <<column, built, call>>
ir_vars == <<lhs, rhs, ir>>
vars == <<column, built, call, lhs, rhs, ir>>

NoCall == [op |-> "none", idx_a |-> 0, idx_b |-> 0, nulls_last |-> FALSE,
           eq |-> FALSE, ord |-> "Equal"]

WithRole(role, c) == [role |-> role, tag |-> c.tag, dtype |-> c.dtype]

NoIr == [eq_done |-> FALSE, eq |-> FALSE, hash_done |-> FALSE,
         hash_lhs |-> <<>>, hash_rhs |-> <<>>]

Init ==
    /\ column \in Columns
    /\ built = NoComparator
    /\ call = NoCall
    /\ lhs = RechunkIR
    /\ rhs = RechunkIR
    /\ ir = NoIr

BuildEqChunked ==
    /\ built.role = "none"
    /\ column.kind = "chunked"
    /\ built' = WithRole("eq", into_total_eq_inner(column.chunks, column.dtype))
    /\ UNCHANGED <<column, call, ir_vars>>

BuildOrdChunked ==
    /\ built.role = "none"
    /\ column.kind = "chunked"
    /\ built' = WithRole("ord", into_total_ord_inner(column.chunks, column.dtype))
    /\ UNCHANGED <<column, call, ir_vars>>

BuildEqNull ==
    /\ built.role = "none"
    /\ column.kind = "null"
    /\ built' = WithRole("eq", into_total_eq_inner_NullChunked(column))
    /\ UNCHANGED <<column, call, ir_vars>>

BuildOrdNull ==
    /\ built.role = "none"
    /\ column.kind = "null"
    /\ built' = WithRole("ord", into_total_ord_inner_NullChunked(column))
    /\ UNCHANGED <<column, call, ir_vars>>

BuildOrdCategorical ==
    /\ built.role = "none"
    /\ column.kind = "cat"
    /\ built' = WithRole("ord", into_total_ord_inner_Categorical(column))
    /\ UNCHANGED <<column, call, ir_vars>>

Equal ==
    /\ built.role = "eq"
    /\ call.op = "none"
    /\ \E i, j \in Indices(column) :
         call' = [op |-> "equal", idx_a |-> i, idx_b |-> j, nulls_last |-> FALSE,
                  eq |-> dyn_eq(built, column, i, j), ord |-> "Equal"]
    /\ UNCHANGED <<column, built, ir_vars>>

Compare ==
    /\ built.role = "ord"
    /\ call.op = "none"
    /\ \E i, j \in Indices(column), b \in BOOLEAN :
         call' = [op |-> "compare", idx_a |-> i, idx_b |-> j, nulls_last |-> b,
                  eq |-> FALSE, ord |-> dyn_cmp(built, column, i, j, b)]
    /\ UNCHANGED <<column, built, ir_vars>>

\* The consumer (a sort, a group-by probe) takes the result and goes on to
\* its next call on the same comparator.
Consume ==
    /\ call.op # "none"
    /\ call' = NoCall
    /\ UNCHANGED <<column, built, ir_vars>>

Discard ==
    /\ built.role # "none"
    /\ built' = NoComparator
    /\ call' = NoCall
    /\ UNCHANGED <<column, ir_vars>>

Next ==
    \/ BuildEqChunked
    \/ BuildOrdChunked
    \/ BuildEqNull
    \/ BuildOrdNull
    \/ BuildOrdCategorical
    \/ Equal
    \/ Compare
    \/ Consume
    \/ Discard

Spec == Init /\ [][Next]_vars

\* ============================================================== claims
\* What the rows of the column are, read off the logical row sequence.
Rows(col) == Flatten(col.chunks)
IsNull(col, i) == col.kind = "null" \/ ~Rows(col)[i + 1].valid
Payload(col, i) == Rows(col)[i + 1].value
Nullable(c) == c.tag \in {"Arr", "CA", "Lexical"}
Reverse(o) == IF o = "Less" THEN "Greater" ELSE IF o = "Greater" THEN "Less" ELSE "Equal"
Compared == call.op = "compare"
Equaled == call.op = "equal"

\* The order of two rows when null sorts after (nulls_last) or before the
\* present values, the present ones ordered as `payloads` says.
NullableOrder(a_null, b_null, nulls_last, payloads) ==
    IF a_null /\ b_null THEN "Equal"
    ELSE IF a_null THEN (IF nulls_last THEN "Greater" ELSE "Less")
    ELSE IF b_null THEN (IF nulls_last THEN "Less" ELSE "Greater")
    ELSE payloads

\* C1 as the specification states it: on a nullable comparator, compare of
\* (null, present) is Less if nulls_last and Greater otherwise, and compare of
\* (present, null) is Greater if nulls_last and Less otherwise.
C1_NullPresentLessIfNullsLast ==
    (Compared /\ Nullable(built)) =>
        /\ (IsNull(column, call.idx_a) /\ ~IsNull(column, call.idx_b)) =>
              call.ord = (IF call.nulls_last THEN "Less" ELSE "Greater")
        /\ (~IsNull(column, call.idx_a) /\ IsNull(column, call.idx_b)) =>
              call.ord = (IF call.nulls_last THEN "Greater" ELSE "Less")

\* C1 amended: on a nullable comparator, compare of (null, present) is Greater
\* if nulls_last and Less otherwise, and compare of (present, null) is Less if
\* nulls_last and Greater otherwise.
C1_NullPresentGreaterIfNullsLast ==
    (Compared /\ Nullable(built)) =>
        /\ (IsNull(column, call.idx_a) /\ ~IsNull(column, call.idx_b)) =>
              call.ord = (IF call.nulls_last THEN "Greater" ELSE "Less")
        /\ (~IsNull(column, call.idx_a) /\ IsNull(column, call.idx_b)) =>
              call.ord = (IF call.nulls_last THEN "Less" ELSE "Greater")

C1_Witness ==
    /\ Compared /\ Nullable(built)
    /\ IsNull(column, call.idx_a) /\ ~IsNull(column, call.idx_b)
    /\ call.nulls_last /\ call.ord = "Greater"

\* C2: on a nullable comparator over a column with null and non-null rows,
\* every non-null row p and null row n have compare(p, n, true) = Less and
\* compare(n, p, true) = Greater, both reversed under nulls_last = false, and
\* two null rows compare Equal under either policy.
C2_NullPlacement ==
    (built.role = "ord" /\ Nullable(built)) =>
        /\ \A p, n \in Indices(column) :
              (~IsNull(column, p) /\ IsNull(column, n)) =>
                  /\ dyn_cmp(built, column, p, n, TRUE) = "Less"
                  /\ dyn_cmp(built, column, n, p, TRUE) = "Greater"
                  /\ dyn_cmp(built, column, p, n, FALSE) = "Greater"
                  /\ dyn_cmp(built, column, n, p, FALSE) = "Less"
        /\ \A n, m \in Indices(column) : \A b \in BOOLEAN :
              (IsNull(column, n) /\ IsNull(column, m)) =>
                  dyn_cmp(built, column, n, m, b) = "Equal"
        /\ (Compared /\ IsNull(column, call.idx_a) /\ IsNull(column, call.idx_b)) =>
              call.ord = "Equal"
        /\ (Compared /\ ~IsNull(column, call.idx_a) /\ IsNull(column, call.idx_b)) =>
              call.ord = (IF call.nulls_last THEN "Less" ELSE "Greater")

\* A column such as [null, v, null]: a present row compared with a null one.
C2_Witness ==
    /\ Compared /\ Nullable(built)
    /\ Cardinality({n \in Indices(column) : IsNull(column, n)}) >= 2
    /\ ~IsNull(column, call.idx_a) /\ IsNull(column, call.idx_b)
    /\ ~call.nulls_last /\ call.ord = "Greater"

\* C3: on a nullable equality comparator, equal is true for two null rows,
\* false for a null and a present row, and for two present rows true exactly
\* when the payloads are totally equal: both NaN, or neither NaN and the same.
C3_NullableEqual ==
    (Equaled /\ Nullable(built)) =>
        LET a_null == IsNull(column, call.idx_a)
            b_null == IsNull(column, call.idx_b)
            a == Payload(column, call.idx_a)
            b == Payload(column, call.idx_b)
        IN call.eq =
            IF a_null /\ b_null THEN TRUE
            ELSE IF a_null \/ b_null THEN FALSE
            ELSE (is_nan(a) /\ is_nan(b)) \/ (~is_nan(a) /\ ~is_nan(b) /\ a = b)

\* Two distinct present NaN rows, natively unequal, found equal.
C3_Witness ==
    /\ Equaled /\ Nullable(built)
    /\ call.idx_a # call.idx_b
    /\ ~IsNull(column, call.idx_a) /\ ~IsNull(column, call.idx_b)
    /\ is_nan(Payload(column, call.idx_a)) /\ is_nan(Payload(column, call.idx_b))
    /\ ~native_eq_f64(Payload(column, call.idx_a), Payload(column, call.idx_b))
    /\ call.eq

\* The column of C4's example: rows with codes [0, 1], 0 -> "b", 1 -> "a".
C4_Example ==
    /\ column.kind = "cat"
    /\ Rows(column) = <<[valid |-> TRUE, value |-> 0], [valid |-> TRUE, value |-> 1]>>
    /\ column.mapping[0] = <<2>> /\ column.mapping[1] = <<1>>
    /\ Compared /\ call.idx_a = 0 /\ call.idx_b = 1

\* C4: the order comparator of a categorical column orders two rows by the
\* strings their codes map to (nulls as in a nullable comparator) when the
\* column uses lexical ordering, and as the physical comparator over the codes
\* orders them when it does not; on codes {0: "b", 1: "a"} and rows [0, 1],
\* compare(0, 1) is Less by code and Greater lexically.
C4_CategoricalOrder ==
    (Compared /\ column.kind = "cat") =>
        LET a_null == IsNull(column, call.idx_a)
            b_null == IsNull(column, call.idx_b)
            a == Payload(column, call.idx_a)
            b == Payload(column, call.idx_b)
        IN /\ column.lexical =>
                call.ord = NullableOrder(a_null, b_null, call.nulls_last,
                               tot_cmp_str(column.mapping[a], column.mapping[b]))
           /\ ~column.lexical =>
                /\ call.ord = NullableOrder(a_null, b_null, call.nulls_last,
                                  IF a < b THEN "Less" ELSE IF a > b THEN "Greater" ELSE "Equal")
                /\ call.ord = dyn_cmp(into_total_ord_inner(column.chunks, "u32"), column,
                                  call.idx_a, call.idx_b, call.nulls_last)
           /\ C4_Example => call.ord = (IF column.lexical THEN "Greater" ELSE "Less")

C4_Witness == C4_Example /\ column.lexical /\ call.ord = "Greater"

\* The nullable comparator over the same column as a NoNull comparator.
NullableTwin(c) ==
    Comparator(IF c.tag = "NonNullArr" THEN "Arr" ELSE "CA", c.dtype)

\* C5: a comparator built for a SingleNoNull or MultiNoNull layout is over a
\* column without null rows, returns what the nullable comparator returns on
\* the same (present) rows, and its compare does not depend on nulls_last.
C5_NoNullFastPath ==
    IsNonNull(built) =>
        /\ \A i \in Indices(column) : ~IsNull(column, i)
        /\ Compared =>
              /\ call.ord = cmp_element_unchecked(NullableTwin(built), column,
                                call.idx_a, call.idx_b, call.nulls_last)
              /\ call.ord = NullableOrder(FALSE, FALSE, call.nulls_last,
                                tot_cmp(built.dtype, Payload(column, call.idx_a),
                                        Payload(column, call.idx_b)))
              /\ call.ord = dyn_cmp(built, column, call.idx_a, call.idx_b, ~call.nulls_last)
        /\ Equaled =>
              call.eq = eq_element_unchecked(NullableTwin(built), column,
                            call.idx_a, call.idx_b)

C5_Witness ==
    /\ IsNonNull(built) /\ Compared
    /\ ~call.nulls_last /\ call.ord = "Less"
    /\ is_nan(Payload(column, call.idx_b))

\* The same rows held in one block.
OneBlock(col) == [col EXCEPT !.chunks = <<Flatten(col.chunks)>>]

\* C6: the comparators the factories build over a column return what the
\* comparators built over the same rows held in one block return, for equal
\* and for compare under both policies.
C6_LayoutIndependent ==
    LET one == OneBlock(column)
    IN /\ (Compared /\ column.kind = "chunked") =>
              call.ord = dyn_cmp(into_total_ord_inner(one.chunks, one.dtype), one,
                             call.idx_a, call.idx_b, call.nulls_last)
       /\ (Compared /\ column.kind = "cat") =>
              call.ord = dyn_cmp(into_total_ord_inner_Categorical(one), one,
                             call.idx_a, call.idx_b, call.nulls_last)
       /\ (Equaled /\ column.kind = "chunked") =>
              call.eq = dyn_eq(into_total_eq_inner(one.chunks, one.dtype), one,
                            call.idx_a, call.idx_b)

\* Blocks of different sizes, a null row, two rows of different blocks compared.
C6_Witness ==
    /\ Compared /\ column.kind = "chunked"
    /\ Len(column.chunks) >= 2
    /\ Len(column.chunks[1]) # Len(column.chunks[2])
    /\ call.idx_a < Len(column.chunks[1]) /\ call.idx_b >= Len(column.chunks[1])
    /\ \E n \in Indices(column) : IsNull(column, n)
    /\ call.ord = "Greater"

\* C7: over an all-null column, equal is true and compare is Equal for every
\* pair of indices and either policy.
C7_AllNull ==
    column.kind = "null" =>
        /\ Equaled => call.eq
        /\ Compared => call.ord = "Equal"

C7_Witness ==
    /\ column.kind = "null" /\ Compared /\ built.tag = "NullChunked"
    /\ call.idx_a # call.idx_b /\ call.nulls_last /\ call.ord = "Equal"

\* C8: for every comparator, equal(i, i) is true, compare(i, i, b) is Equal
\* and equal(i, j) = equal(j, i), null and NaN rows included.
C8_ReflexiveSymmetric ==
    /\ Equaled =>
          /\ (call.idx_a = call.idx_b => call.eq)
          /\ call.eq = dyn_eq(built, column, call.idx_b, call.idx_a)
          /\ \A i \in Indices(column) : dyn_eq(built, column, i, i)
    /\ Compared =>
          /\ (call.idx_a = call.idx_b => call.ord = "Equal")
          /\ \A i \in Indices(column) : \A b \in BOOLEAN :
                dyn_cmp(built, column, i, i, b) = "Equal"

\* A NaN row of a null-free column found equal to itself.
C8_Witness ==
    /\ Equaled /\ IsNonNull(built)
    /\ call.idx_a = call.idx_b
    /\ is_nan(Payload(column, call.idx_a))
    /\ call.eq

\* C9: on rows that hold a value, compare yields Less, Equal or Greater,
\* compare(i, j, b) is the reverse of compare(j, i, b), and Less is
\* transitive, NaN payloads included, under either policy.
C9_TotalOrderOnPresent ==
    (Compared /\ column.kind # "null"
        /\ ~IsNull(column, call.idx_a) /\ ~IsNull(column, call.idx_b)) =>
        /\ call.ord \in {"Less", "Equal", "Greater"}
        /\ call.ord = Reverse(dyn_cmp(built, column, call.idx_b, call.idx_a, call.nulls_last))
        /\ \A k \in Indices(column) :
              (/\ ~IsNull(column, k)
               /\ call.ord = "Less"
               /\ dyn_cmp(built, column, call.idx_b, k, call.nulls_last) = "Less") =>
                  dyn_cmp(built, column, call.idx_a, k, call.nulls_last) = "Less"

\* Three present rows a < b < k, the last one NaN.
C9_Witness ==
    /\ Compared /\ column.kind = "chunked" /\ call.ord = "Less"
    /\ ~IsNull(column, call.idx_a) /\ ~IsNull(column, call.idx_b)
    /\ \E k \in Indices(column) :
          /\ ~IsNull(column, k) /\ is_nan(Payload(column, k))
          /\ dyn_cmp(built, column, call.idx_b, k, call.nulls_last) = "Less"
          /\ dyn_cmp(built, column, call.idx_a, k, call.nulls_last) = "Less"

\* Plan nodes compared and hashed (as keys of the optimizer's hash maps).
InitIR ==
    /\ column = CHOOSE c \in NullColumns : c.length = 1
    /\ built = NoComparator
    /\ call = NoCall
    /\ lhs \in FunctionIRs
    /\ rhs \in FunctionIRs
    /\ ir = NoIr

IrEq ==
    /\ ~ir.eq_done
    /\ ir' = [ir EXCEPT !.eq_done = TRUE, !.eq = FunctionIR_eq(lhs, rhs)]
    /\ UNCHANGED <<cmp_vars, lhs, rhs>>

IrHash ==
    /\ ~ir.hash_done
    /\ ir' = [ir EXCEPT !.hash_done = TRUE,
                        !.hash_lhs = FunctionIR_hash(lhs),
                        !.hash_rhs = FunctionIR_hash(rhs)]
    /\ UNCHANGED <<cmp_vars, lhs, rhs>>

NextIR ==
    \/ IrEq
    \/ IrHash

SpecIR == InitIR /\ [][NextIR]_vars

\* C10 (FunctionIR): Hash is consistent with PartialEq/Eq: whenever lhs == rhs, hashing
\* lhs and hashing rhs feed the hasher the same sequence of data.
C10_HashConsistentWithEq ==
    (ir.eq_done /\ ir.hash_done /\ ir.eq) => ir.hash_lhs = ir.hash_rhs
====
